---- MODULE Spec2Model ----
(***************************************************************************)
(* The two programs of the repository:                                     *)
(*   src/main.py            the FastAPI service (startup hook and the      *)
(*                          POST /generate-image/ handler)                 *)
(*   src/generate_image.py  the standalone script                          *)
(* One run of the model is one run of one of the two programs.  The remote *)
(* provider, the image codec, the environment and uuid4 are the            *)
(* environment: their outcomes are chosen nondeterministically.            *)
(***************************************************************************)
EXTENDS Integers, Sequences, FiniteSets, TLC

VARIABLES
    program,        \* which of the two programs this process runs
    STABILITY_KEY,  \* os.environ['STABILITY_KEY'] (NoneValue when unset)
    stability_api,  \* main.py: the module global of that name
    server,         \* main.py: "starting" until the startup hook has run
    running,        \* main.py: the request whose coroutine holds the event loop, 0 if none
    h,              \* main.py: one frame of generate_image_endpoint per request
    issued,         \* how many values uuid4 has returned so far
    sent,           \* per caller, the payloads passed to stability_api.generate
                    \* (a request's are kept until its handler has finished)
    writes,         \* the file writes so far, in order: [file, by, data]
    script          \* generate_image.py: its position and module globals

vars == <<program, STABILITY_KEY, stability_api, server, running, h,
          issued, sent, writes, script>>


(***************************************************************************)
(* Bounds of the model.                                                    *)
(***************************************************************************)
NumRequests == 2    \* requests the service receives in one run
MaxChunks == 2      \* chunks a response stream yields
MaxArtifacts == 2   \* artifacts in one chunk

Requests == 1..NumRequests
ScriptCaller == 0
Callers == Requests \cup {ScriptCaller}

(***************************************************************************)
(* Inputs.                                                                 *)
(***************************************************************************)
NoneValue == "<None>"
EnvValues == {NoneValue, "", "sk-test"}
\* the (prompt, negative_prompt) pairs requests come with: one without and
\* one with a negative prompt
PromptInputs == { <<"castle", "">>, <<"dragon", "blurry">> }

KeyList == <<"1:1_square", "16:9_widescreen", "9:16_tall", "3:2_landscape", "2:3_portrait">>

ASPECT_RATIOS ==
    ("1:1_square" :> <<1024, 1024>>) @@
    ("16:9_widescreen" :> <<1344, 768>>) @@
    ("9:16_tall" :> <<768, 1344>>) @@
    ("3:2_landscape" :> <<1216, 832>>) @@
    ("2:3_portrait" :> <<832, 1216>>)

AspectKeyInputs == DOMAIN ASPECT_RATIOS \cup {"4:3_classic"}

\* generation.FILTER and generation.ARTIFACT_IMAGE, and the other tags a
\* provider artifact may carry.  The artifacts a stream is made of: a valid
\* image, an image payload that does not decode, a filtered artifact (of
\* image type, so that both tests apply to it) and two that are neither.
FILTER == "FILTER"
ARTIFACT_IMAGE == "ARTIFACT_IMAGE"
ArtifactTypes == {ARTIFACT_IMAGE, "ARTIFACT_TEXT"}
FinishReasons == {"NULL", "ERROR", FILTER}

Artifacts ==
    { [type |-> ARTIFACT_IMAGE, finish_reason |-> "NULL", binary |-> "png"],
      [type |-> ARTIFACT_IMAGE, finish_reason |-> "NULL", binary |-> "garbage"],
      [type |-> ARTIFACT_IMAGE, finish_reason |-> FILTER, binary |-> "png"],
      [type |-> "ARTIFACT_TEXT", finish_reason |-> "NULL", binary |-> ""],
      [type |-> "ARTIFACT_TEXT", finish_reason |-> "ERROR", binary |-> ""] }

Chunks == UNION { [1..k -> Artifacts] : k \in 0..MaxArtifacts }

Range(s) == { s[i] : i \in DOMAIN s }

(***************************************************************************)
(* Values.                                                                 *)
(***************************************************************************)
None == [none |-> TRUE]
NoException == ""

\* Mutant: only an unset key counts as missing, an empty one does not.
Falsy_NoneOnly(s) == s = NoneValue

\* `not api_key`
Falsy(s) == s = NoneValue \/ s = ""

\* client.StabilityInference(key=api_key, verbose=True, engine=...)
StabilityInference(api_key) ==
    [key |-> api_key, verbose |-> TRUE, engine |-> "stable-diffusion-xl-1024-v1-0"]


(***************************************************************************)
(* Request builder (main.py 72-97, generate_image.py 36-58).               *)
(***************************************************************************)
\* Mutant: the weighted pair is built whether or not there is a negative prompt.
PromptArgument_AlwaysPair(prompt, negative_prompt) ==
    [kind |-> "list",
     items |-> << [text |-> prompt, weight |-> 1],
                  [text |-> negative_prompt, weight |-> -1] >>]

\* The prompt argument of stability_api.generate: the two weighted
\* generation.Prompt objects when negative_prompt is truthy, else the bare
\* prompt string (no generation.Prompt, no weight).
PromptArgument(prompt, negative_prompt) ==
    IF negative_prompt # ""
    THEN [kind |-> "list",
          items |-> << [text |-> prompt, weight |-> 1],
                       [text |-> negative_prompt, weight |-> -1] >>]
    ELSE [kind |-> "str", text |-> prompt]

GenerateArguments(prompt, negative_prompt, image_width, image_height) ==
    [prompt |-> PromptArgument(prompt, negative_prompt),
     steps |-> 50,
     cfg_scale |-> 7,
     width |-> image_width,
     height |-> image_height,
     samples |-> 1,
     sampler |-> "SAMPLER_K_DPMPP_2M"]

\* Mutant: one fixed name, as in the script.
OutputFilename_Fixed(unique_id) == <<"generated_image.png">>

\* f"generated_image_{unique_id}.png"
OutputFilename(unique_id) == <<"generated_image_", unique_id, ".png">>

\* generate_image.py: the fixed parameters
prompt_text == "A fantasy castle on a floating island, vibrant colors, digital art"
negative_prompt_text == "blurry, ugly, deformed, watermark, signature, text"
aspect_ratios ==
    ("1:1_square" :> <<1024, 1024>>) @@
    ("16:9_widescreen" :> <<1344, 768>>) @@
    ("9:16_tall" :> <<768, 1344>>)
selected_aspect_ratio == "16:9_widescreen"
castle_filename == <<"castle_widescreen.png">>

(***************************************************************************)
(* Response interpreter: the tests applied to one artifact.                *)
(***************************************************************************)
\* artifact.finish_reason == generation.FILTER
IsFilter(artifact) == artifact.finish_reason = FILTER

\* artifact.type == generation.ARTIFACT_IMAGE
IsImage(artifact) == artifact.type = ARTIFACT_IMAGE

\* Mutant: the image test comes before the filter test.
Classify_ImageFirst(artifact) ==
    IF IsImage(artifact) THEN "image"
    ELSE IF IsFilter(artifact) THEN "filter"
    ELSE "other"

\* The if / (el)if of the inner loop: the filter test comes first.
Classify(artifact) ==
    IF IsFilter(artifact) THEN "filter"
    ELSE IF IsImage(artifact) THEN "image"
    ELSE "other"

\* Mutant: only the filter leaves the outer loop.
BreakOuter_FilterOnly(image_saved, filter_triggered) == filter_triggered

\* `if image_saved_successfully or safety_filter_triggered: break`
BreakOuter(image_saved, filter_triggered) == image_saved \/ filter_triggered

\* Image.open(io.BytesIO(artifact.binary)) succeeds on an image payload only.
Decodable(binary) == binary = "png"

\* f"Artifact type: {artifact.type}, Finish reason: {artifact.finish_reason}"
ArtifactInfo(artifact) ==
    CASE artifact.type = ARTIFACT_IMAGE /\ artifact.finish_reason = "NULL" ->
            "Artifact type: ARTIFACT_IMAGE, Finish reason: NULL"
      [] artifact.type = ARTIFACT_IMAGE /\ artifact.finish_reason = "ERROR" ->
            "Artifact type: ARTIFACT_IMAGE, Finish reason: ERROR"
      [] artifact.type = ARTIFACT_IMAGE /\ artifact.finish_reason = FILTER ->
            "Artifact type: ARTIFACT_IMAGE, Finish reason: FILTER"
      [] artifact.type = "ARTIFACT_TEXT" /\ artifact.finish_reason = "NULL" ->
            "Artifact type: ARTIFACT_TEXT, Finish reason: NULL"
      [] artifact.type = "ARTIFACT_TEXT" /\ artifact.finish_reason = "ERROR" ->
            "Artifact type: ARTIFACT_TEXT, Finish reason: ERROR"
      [] artifact.type = "ARTIFACT_TEXT" /\ artifact.finish_reason = FILTER ->
            "Artifact type: ARTIFACT_TEXT, Finish reason: FILTER"

NoArtifactInfo == "No specific artifact processed."

(***************************************************************************)
(* The responses of generate_image_endpoint.                               *)
(***************************************************************************)
NoResponse == [none |-> TRUE]

NotInitializedResponse(env_key) ==
    [error |-> "Stability API not initialized. Check server logs.",
     detail |-> IF Falsy(env_key)
                THEN "STABILITY_KEY status: NOT SET or connection FAILED"
                ELSE "STABILITY_KEY status: Set, but connection FAILED on startup"]

\* Mutant: the keys of the script's shorter table are listed.
InvalidAspectRatioResponse_ScriptKeys ==
    [error |-> "Invalid aspect_ratio_key", available_keys |-> SubSeq(KeyList, 1, 3)]

\* list(ASPECT_RATIOS.keys()), in the order the table is written
InvalidAspectRatioResponse ==
    [error |-> "Invalid aspect_ratio_key", available_keys |-> KeyList]

\* Mutant: prompt and negative_prompt change places in the response.
SuccessResponse_Swapped(output_filename, prompt, negative_prompt, aspect_ratio_key) ==
    [message |-> "Image generated successfully!",
     filename |-> output_filename,
     prompt |-> negative_prompt,
     negative_prompt |-> prompt,
     aspect_ratio |-> aspect_ratio_key]

SuccessResponse(output_filename, prompt, negative_prompt, aspect_ratio_key) ==
    [message |-> "Image generated successfully!",
     filename |-> output_filename,
     prompt |-> prompt,
     negative_prompt |-> negative_prompt,
     aspect_ratio |-> aspect_ratio_key]

FailureResponse(error_message) ==
    [error |-> error_message, details |-> "Could not generate or save image."]

\* the except clause: str(e) is attached unchanged
ExceptionResponse(e) ==
    [error |-> "Failed to generate image.", details |-> e]


(***************************************************************************)
(* State of the service.                                                   *)
(***************************************************************************)
\* The frame of one call of generate_image_endpoint: its parameters and
\* locals under their names in the source.  answers is the response
\* generator returned by stability_api.generate, kept as the number of
\* chunks it has yielded (Unbound before the call); resp holds the
\* artifacts of the current chunk the inner loop has not reached yet and
\* artifact is the loop variable (None before the first artifact).
Unbound == 0 - 1

NewFrame ==
    [pc |-> "idle",
     prompt |-> "", negative_prompt |-> "", aspect_ratio_key |-> "",
     image_width |-> 0, image_height |-> 0,
     output_filename |-> <<>>,
     answers |-> Unbound,
     resp |-> <<>>,
     artifact |-> None,
     image_saved_successfully |-> FALSE,
     safety_filter_triggered |-> FALSE,
     error_message |-> "",
     e |-> NoException,
     ret |-> NoResponse]

InitCommon ==
    /\ STABILITY_KEY \in EnvValues
    /\ stability_api = None
    /\ running = 0
    /\ h = [r \in Requests |-> NewFrame]
    /\ issued = 0
    /\ sent = [c \in Callers |-> <<>>]
    /\ writes = <<>>

(***************************************************************************)
(* main.py: the startup hook.                                              *)
(***************************************************************************)
\* startup_event: returns early when the key is missing or empty; otherwise
\* the client is constructed, and a constructor that raises leaves None.
startup_event ==
    /\ program = "main.py"
    /\ server = "starting"
    /\ \/ /\ Falsy(STABILITY_KEY)
          /\ stability_api' = stability_api
       \/ /\ ~Falsy(STABILITY_KEY)
          /\ \E constructed \in BOOLEAN :
                stability_api' = IF constructed
                                 THEN StabilityInference(STABILITY_KEY)
                                 ELSE None
    /\ server' = "serving"
    /\ UNCHANGED <<program, STABILITY_KEY, running, h, issued,
                   sent, writes, script>>

(***************************************************************************)
(* main.py: generate_image_endpoint, one action per step of the handler.   *)
(* The handler is an `async def` with no await in its body: from the call  *)
(* to the return it holds the event loop (running).                        *)
(***************************************************************************)
\* Mutant: the exception is not caught and leaves the handler.
RaiseEscapes == "crashed"

\* try: ... except Exception as e: whatever is raised between the call of
\* stability_api.generate and the two returns lands in the except clause.
RaiseInHandler == "except"

ServiceUnchanged == UNCHANGED <<program, STABILITY_KEY, stability_api, server, script>>

\* A POST /generate-image/ reaches the server; requests are numbered in
\* the order they arrive.
Arrive(r) ==
    /\ program = "main.py"
    /\ server = "serving"
    /\ h[r].pc = "idle"
    /\ \A q \in Requests : q < r => h[q].pc # "idle"
    /\ h' = [h EXCEPT ![r].pc = "pending"]
    /\ UNCHANGED <<running, issued, sent, writes>>
    /\ ServiceUnchanged

\* The event loop, when no coroutine holds it, calls the handler with the
\* request's parameters.
Begin(r) ==
    /\ h[r].pc = "pending"
    /\ running = 0
    /\ \E texts \in PromptInputs, aspect_ratio_key \in AspectKeyInputs :
            h' = [h EXCEPT ![r] = [@ EXCEPT !.pc = "check_api",
                                            !.prompt = texts[1],
                                            !.negative_prompt = texts[2],
                                            !.aspect_ratio_key = aspect_ratio_key]]
    /\ running' = r
    /\ UNCHANGED <<issued, sent, writes>>
    /\ ServiceUnchanged

\* if stability_api is None: return {...}
CheckInitialized(r) ==
    /\ running = r
    /\ h[r].pc = "check_api"
    /\ IF stability_api = None
       THEN h' = [h EXCEPT ![r] = [@ EXCEPT !.pc = "returned",
                                            !.ret = NotInitializedResponse(STABILITY_KEY)]]
       ELSE h' = [h EXCEPT ![r].pc = "check_ratio"]
    /\ UNCHANGED <<running, issued, sent, writes>>
    /\ ServiceUnchanged

\* aspect_ratio_key in ASPECT_RATIOS
ValidAspectRatio(aspect_ratio_key) == aspect_ratio_key \in DOMAIN ASPECT_RATIOS

\* if aspect_ratio_key not in ASPECT_RATIOS: return {...}
CheckAspectRatio(r) ==
    /\ running = r
    /\ h[r].pc = "check_ratio"
    /\ IF ~ValidAspectRatio(h[r].aspect_ratio_key)
       THEN h' = [h EXCEPT ![r] = [@ EXCEPT !.pc = "returned",
                                            !.ret = InvalidAspectRatioResponse]]
       ELSE h' = [h EXCEPT ![r].pc = "prepare"]
    /\ UNCHANGED <<running, issued, sent, writes>>
    /\ ServiceUnchanged

\* uuid.uuid4()
uuid4 == issued + 1

\* image_width, image_height = ASPECT_RATIOS[aspect_ratio_key]
\* unique_id = uuid.uuid4(): a value uuid4 has not returned before; the
\* values are named by the order in which they are drawn.
\* output_filename = f"generated_image_{unique_id}.png"
PrepareOutput(r) ==
    /\ running = r
    /\ h[r].pc = "prepare"
    /\ LET unique_id == uuid4 IN
          /\ issued' = issued + 1
          /\ h' = [h EXCEPT ![r] =
                     [@ EXCEPT !.pc = "generate",
                               !.image_width = ASPECT_RATIOS[h[r].aspect_ratio_key][1],
                               !.image_height = ASPECT_RATIOS[h[r].aspect_ratio_key][2],
                               !.output_filename = OutputFilename(unique_id)]]
    /\ UNCHANGED <<running, sent, writes>>
    /\ ServiceUnchanged

\* try: answers = stability_api.generate(...); the three locals are set
\* after the call.  The call may raise.
CallGenerate(r) ==
    /\ running = r
    /\ h[r].pc = "generate"
    /\ sent' = [sent EXCEPT ![r] =
                  Append(@, GenerateArguments(h[r].prompt, h[r].negative_prompt,
                                              h[r].image_width, h[r].image_height))]
    /\ \/ h' = [h EXCEPT ![r] = [@ EXCEPT !.pc = "for_resp",
                                          !.answers = 0,
                                          !.image_saved_successfully = FALSE,
                                          !.safety_filter_triggered = FALSE,
                                          !.error_message = "No image generated."]]
       \/ h' = [h EXCEPT ![r] = [@ EXCEPT !.pc = RaiseInHandler,
                                          !.e = "generate: invalid argument"]]
    /\ UNCHANGED <<running, issued, writes>>
    /\ ServiceUnchanged

\* for resp in answers: the generator yields the next chunk, is exhausted,
\* or raises (a transport error).
NextResp(r) ==
    /\ running = r
    /\ h[r].pc = "for_resp"
    /\ \/ /\ h[r].answers < MaxChunks
          /\ \E resp \in Chunks :
                h' = [h EXCEPT ![r] = [@ EXCEPT !.pc = "for_artifact",
                                                !.answers = @ + 1,
                                                !.resp = resp]]
       \/ h' = [h EXCEPT ![r].pc = "result"]
       \/ h' = [h EXCEPT ![r] = [@ EXCEPT !.pc = RaiseInHandler,
                                          !.e = "stream: rpc error"]]
    /\ UNCHANGED <<running, issued, sent, writes>>
    /\ ServiceUnchanged

\* where the handler goes after the inner loop has ended
AfterInner(image_saved, filter_triggered) ==
    IF BreakOuter(image_saved, filter_triggered) THEN "result" ELSE "for_resp"

\* for artifact in resp.artifacts: one artifact, with both tests, and the
\* test after the inner loop when the inner loop ends here.  Image.open
\* raises on a payload that is no image; img.save either writes the file or
\* raises, and a save that raises leaves no file or a truncated one.
NextArtifact(r) ==
    /\ running = r
    /\ h[r].pc = "for_artifact"
    /\ IF h[r].resp = <<>>
       THEN /\ h' = [h EXCEPT ![r].pc =
                        AfterInner(h[r].image_saved_successfully,
                                   h[r].safety_filter_triggered)]
            /\ UNCHANGED writes
       ELSE LET artifact == Head(h[r].resp) IN
               CASE Classify(artifact) = "filter" ->
                      /\ h' = [h EXCEPT ![r] =
                                 [@ EXCEPT !.resp = Tail(@),
                                           !.artifact = artifact,
                                           !.error_message =
                                               "Safety filter activated. Please modify prompt.",
                                           !.safety_filter_triggered = TRUE,
                                           !.pc = AfterInner(h[r].image_saved_successfully, TRUE)]]
                      /\ UNCHANGED writes
                 [] Classify(artifact) = "image" ->
                      \/ /\ ~Decodable(artifact.binary)
                         /\ h' = [h EXCEPT ![r] =
                                    [@ EXCEPT !.resp = Tail(@),
                                              !.artifact = artifact,
                                              !.pc = RaiseInHandler,
                                              !.e = "cannot identify image file"]]
                         /\ UNCHANGED writes
                      \/ /\ Decodable(artifact.binary)
                         /\ h' = [h EXCEPT ![r] =
                                    [@ EXCEPT !.resp = Tail(@),
                                              !.artifact = artifact,
                                              !.pc = RaiseInHandler,
                                              !.e = "save: no space left on device"]]
                         /\ \/ UNCHANGED writes
                            \/ writes' = Append(writes,
                                  [file |-> h[r].output_filename, by |-> r,
                                   data |-> "truncated"])
                      \/ /\ Decodable(artifact.binary)
                         /\ writes' = Append(writes,
                               [file |-> h[r].output_filename, by |-> r,
                                data |-> artifact.binary])
                         /\ h' = [h EXCEPT ![r] =
                                    [@ EXCEPT !.resp = Tail(@),
                                              !.artifact = artifact,
                                              !.image_saved_successfully = TRUE,
                                              !.pc = AfterInner(TRUE, h[r].safety_filter_triggered)]]
                 [] OTHER ->
                      /\ h' = [h EXCEPT ![r] = [@ EXCEPT !.resp = Tail(@),
                                                           !.artifact = artifact]]
                      /\ UNCHANGED writes
    /\ UNCHANGED <<running, issued, sent>>
    /\ ServiceUnchanged

\* if image_saved_successfully: return {...} else: return {...}
BuildResult(r) ==
    /\ running = r
    /\ h[r].pc = "result"
    /\ h' = [h EXCEPT ![r] =
               [@ EXCEPT !.pc = "returned",
                         !.ret = IF h[r].image_saved_successfully
                                 THEN SuccessResponse(h[r].output_filename, h[r].prompt,
                                                      h[r].negative_prompt,
                                                      h[r].aspect_ratio_key)
                                 ELSE FailureResponse(h[r].error_message)]]
    /\ UNCHANGED <<running, issued, sent, writes>>
    /\ ServiceUnchanged

\* except Exception as e: return {...}
HandleException(r) ==
    /\ running = r
    /\ h[r].pc = "except"
    /\ h' = [h EXCEPT ![r] = [@ EXCEPT !.pc = "returned",
                                       !.ret = ExceptionResponse(h[r].e)]]
    /\ UNCHANGED <<running, issued, sent, writes>>
    /\ ServiceUnchanged

\* The coroutine has returned: the response is sent, the frame is dropped
\* and the event loop is free again.
Finish(r) ==
    /\ running = r
    /\ h[r].pc = "returned"
    /\ h' = [h EXCEPT ![r] = [NewFrame EXCEPT !.pc = "done"]]
    /\ sent' = [sent EXCEPT ![r] = <<>>]
    /\ running' = 0
    /\ UNCHANGED <<issued, writes>>
    /\ ServiceUnchanged


(***************************************************************************)
(* generate_image.py: the script, top to bottom.                           *)
(***************************************************************************)
ScriptOff ==
    [pc |-> "off",
     stability_api |-> None,
     answers |-> Unbound,
     resp |-> <<>>,
     artifact |-> None,
     image_saved |-> FALSE,
     safety_filter_activated |-> FALSE,
     last_artifact_type_info |-> NoArtifactInfo,
     stdout |-> <<>>]

ScriptUnchanged ==
    UNCHANGED <<program, STABILITY_KEY, stability_api, server, running, h,
                issued>>

\* The try block at the top: a missing or empty key raises ValueError, the
\* constructor may raise; either way the message is printed and exit() ends
\* the process.
ScriptConnect ==
    /\ script.pc = "connect"
    /\ \/ /\ Falsy(STABILITY_KEY)
          /\ script' = [script EXCEPT
                !.pc = "exited",
                !.stdout = Append(@, <<"Error connecting to Stability AI: ",
                                       "STABILITY_KEY environment variable not set or empty.">>)]
       \/ /\ ~Falsy(STABILITY_KEY)
          /\ script' = [script EXCEPT
                !.pc = "exited",
                !.stdout = Append(@, <<"Error connecting to Stability AI: ",
                                       "connection failed">>)]
       \/ /\ ~Falsy(STABILITY_KEY)
          /\ script' = [script EXCEPT
                !.pc = "generate",
                !.stability_api = StabilityInference(STABILITY_KEY),
                !.stdout = Append(@, <<"Successfully connected to Stability AI API.">>)]
    /\ UNCHANGED <<sent, writes>>
    /\ ScriptUnchanged

\* answers = stability_api.generate(...) with the fixed parameters, outside
\* any try: a call that raises ends the script with a traceback.
ScriptGenerate ==
    /\ script.pc = "generate"
    /\ sent' = [sent EXCEPT ![ScriptCaller] =
                  Append(@, GenerateArguments(prompt_text, negative_prompt_text,
                                              aspect_ratios[selected_aspect_ratio][1],
                                              aspect_ratios[selected_aspect_ratio][2]))]
    /\ \/ script' = [script EXCEPT !.pc = "for_resp",
                                   !.answers = 0,
                                   !.image_saved = FALSE,
                                   !.safety_filter_activated = FALSE,
                                   !.last_artifact_type_info = NoArtifactInfo]
       \/ script' = [script EXCEPT !.pc = "crashed"]
    /\ UNCHANGED writes
    /\ ScriptUnchanged

\* for resp in answers
ScriptNextResp ==
    /\ script.pc = "for_resp"
    /\ \/ /\ script.answers < MaxChunks
          /\ \E resp \in Chunks :
                script' = [script EXCEPT !.pc = "for_artifact",
                                         !.answers = @ + 1,
                                         !.resp = resp]
       \/ script' = [script EXCEPT !.pc = "report"]
       \/ script' = [script EXCEPT !.pc = "crashed"]
    /\ UNCHANGED <<sent, writes>>
    /\ ScriptUnchanged

\* for artifact in resp.artifacts, and the test after the inner loop
ScriptNextArtifact ==
    /\ script.pc = "for_artifact"
    /\ IF script.resp = <<>>
       THEN /\ script' = [script EXCEPT !.pc =
                            IF BreakOuter(script.image_saved, script.safety_filter_activated)
                            THEN "report" ELSE "for_resp"]
            /\ UNCHANGED writes
       ELSE LET artifact == Head(script.resp) IN
            CASE Classify(artifact) = "filter" ->
                   /\ script' = [script EXCEPT
                         !.resp = Tail(@),
                         !.artifact = artifact,
                         !.last_artifact_type_info = ArtifactInfo(artifact),
                         !.stdout = Append(@, <<"Safety filter activated. No image generated.">>),
                         !.safety_filter_activated = TRUE,
                         !.pc = IF BreakOuter(script.image_saved, TRUE)
                                THEN "report" ELSE "for_resp"]
                   /\ UNCHANGED writes
              [] Classify(artifact) = "image" ->
                   \/ /\ script' = [script EXCEPT
                            !.resp = Tail(@),
                            !.artifact = artifact,
                            !.last_artifact_type_info = ArtifactInfo(artifact),
                            !.pc = "crashed"]
                      /\ \/ UNCHANGED writes
                         \/ /\ Decodable(artifact.binary)
                            /\ writes' = Append(writes,
                                  [file |-> castle_filename, by |-> ScriptCaller,
                                   data |-> "truncated"])
                   \/ /\ Decodable(artifact.binary)
                      /\ writes' = Append(writes,
                            [file |-> castle_filename, by |-> ScriptCaller,
                             data |-> artifact.binary])
                      /\ script' = [script EXCEPT
                            !.resp = Tail(@),
                            !.artifact = artifact,
                            !.last_artifact_type_info = ArtifactInfo(artifact),
                            !.stdout = Append(@, <<"Image successfully saved as ",
                                                   castle_filename>>),
                            !.image_saved = TRUE,
                            !.pc = IF BreakOuter(TRUE, script.safety_filter_activated)
                                   THEN "report" ELSE "for_resp"]
              [] OTHER ->
                   /\ script' = [script EXCEPT
                         !.resp = Tail(@),
                         !.artifact = artifact,
                         !.last_artifact_type_info = ArtifactInfo(artifact)]
                   /\ UNCHANGED writes
    /\ UNCHANGED sent
    /\ ScriptUnchanged

\* if not image_saved and not safety_filter_activated: print(...)
\* print("\nScript finished.")
ScriptReport ==
    /\ script.pc = "report"
    /\ script' = [script EXCEPT
          !.pc = "finished",
          !.stdout =
              IF ~script.image_saved /\ ~script.safety_filter_activated
              THEN @ \o << <<"No image artifact found in the response. Last artifact info: ",
                             script.last_artifact_type_info>>,
                           <<"Script finished.">> >>
              ELSE Append(@, <<"Script finished.">>)]
    /\ UNCHANGED <<sent, writes>>
    /\ ScriptUnchanged

(***************************************************************************)
(* The specification: one of the two programs is started.                  *)
(***************************************************************************)
Init ==
    /\ InitCommon
    /\ \/ /\ program = "main.py"
          /\ server = "starting"
          /\ script = ScriptOff
       \/ /\ program = "generate_image.py"
          /\ server = "off"
          /\ script = [ScriptOff EXCEPT !.pc = "connect"]

Next ==
    \/ startup_event
    \/ \E r \in Requests :
          \/ Arrive(r)
          \/ Begin(r)
          \/ CheckInitialized(r)
          \/ CheckAspectRatio(r)
          \/ PrepareOutput(r)
          \/ CallGenerate(r)
          \/ NextResp(r)
          \/ NextArtifact(r)
          \/ BuildResult(r)
          \/ HandleException(r)
          \/ Finish(r)
    \/ ScriptConnect
    \/ ScriptGenerate
    \/ ScriptNextResp
    \/ ScriptNextArtifact
    \/ ScriptReport

Spec == Init /\ [][Next]_vars


(***************************************************************************)
(* Properties.                                                             *)
(***************************************************************************)
FilterMessage == "Safety filter activated. Please modify prompt."
FilterLine == <<"Safety filter activated. No image generated.">>

WritesBy(c) == { i \in DOMAIN writes : writes[i].by = c }

\* the handler of r has been called and has not finished
Live(r) == h[r].pc \notin {"idle", "pending", "done"}

ValidImage(a) ==
    a.type = "ARTIFACT_IMAGE" /\ a.finish_reason # "FILTER" /\ a.binary = "png"

\* C1: filter precedence.  Once the artifact a program has just examined
\* carries the filter finish-reason (whatever its type), the filter flag is
\* set, the program has left both loops (no further artifact is examined and
\* no further chunk is pulled), it has written no file, and the outcome it
\* reports is Filtered: the service returns the filter error, the script
\* prints the filter line and no other status.
C1_FilterPrecedence ==
    /\ \A r \in Requests :
          (h[r].artifact # None /\ h[r].artifact.finish_reason = "FILTER") =>
             /\ h[r].safety_filter_triggered
             /\ ~h[r].image_saved_successfully
             /\ h[r].pc \in {"result", "returned"}
             /\ WritesBy(r) = {}
             /\ h[r].pc = "returned" => h[r].ret = FailureResponse(FilterMessage)
    /\ (script.artifact # None /\ script.artifact.finish_reason = "FILTER") =>
          /\ script.safety_filter_activated
          /\ ~script.image_saved
          /\ script.pc \in {"report", "finished"}
          /\ WritesBy(ScriptCaller) = {}
          /\ FilterLine \in Range(script.stdout)
          /\ \A i \in DOMAIN script.stdout :
                script.stdout[i][1] \notin
                   {"Image successfully saved as ",
                    "No image artifact found in the response. Last artifact info: "}

\* A request has returned Filtered on an artifact that is both of image type
\* and filtered, a valid image is next in the same chunk, and the stream
\* could still yield a chunk.
C1_Witness ==
    \E r \in Requests :
       /\ h[r].pc = "returned"
       /\ h[r].ret = FailureResponse(FilterMessage)
       /\ h[r].artifact.type = "ARTIFACT_IMAGE"
       /\ h[r].resp # <<>>
       /\ ValidImage(Head(h[r].resp))
       /\ h[r].answers < MaxChunks

\* C2: first image wins.  No caller ever writes more than one file; once a
\* program has saved an image, the artifact it examined last is that image
\* (of image type, not filtered), the program has left both loops, the one
\* write is the decoded payload under the request's filename, and the
\* outcome is Saved.
C2_FirstImageWins ==
    /\ \A c \in Callers : Cardinality(WritesBy(c)) <= 1
    /\ \A r \in Requests :
          h[r].image_saved_successfully =>
             /\ h[r].artifact.type = "ARTIFACT_IMAGE"
             /\ h[r].artifact.finish_reason # "FILTER"
             /\ ~h[r].safety_filter_triggered
             /\ h[r].pc \in {"result", "returned"}
             /\ \E i \in WritesBy(r) :
                   writes[i] = [file |-> h[r].output_filename, by |-> r,
                                data |-> h[r].artifact.binary]
             /\ h[r].pc = "returned" => "message" \in DOMAIN h[r].ret
    /\ script.image_saved =>
          /\ script.artifact.type = "ARTIFACT_IMAGE"
          /\ script.artifact.finish_reason # "FILTER"
          /\ ~script.safety_filter_activated
          /\ script.pc \in {"report", "finished"}
          /\ \E i \in WritesBy(ScriptCaller) :
                writes[i] = [file |-> castle_filename, by |-> ScriptCaller,
                             data |-> script.artifact.binary]
          /\ <<"Image successfully saved as ", castle_filename>> \in Range(script.stdout)

\* A request has returned Saved while a second valid image and then a
\* filtered artifact were still waiting in the chunk.
C2_Witness ==
    \E r \in Requests :
       /\ h[r].pc = "returned"
       /\ "message" \in DOMAIN h[r].ret
       /\ Len(h[r].resp) >= 1
       /\ \E i \in DOMAIN h[r].resp : ValidImage(h[r].resp[i])
       /\ h[r].answers < MaxChunks

\* the handler of r has returned the Empty outcome: the stream ended with no
\* filter artifact and no image artifact met, and nothing was raised
ServiceEmpty(r) ==
    /\ h[r].pc = "returned"
    /\ h[r].answers # Unbound
    /\ h[r].e = NoException
    /\ ~h[r].image_saved_successfully
    /\ ~h[r].safety_filter_triggered

ScriptEmpty ==
    /\ script.pc = "finished"
    /\ ~script.image_saved
    /\ ~script.safety_filter_activated

\* the diagnostic the claim asks for: the last artifact observed, or a marker
ExpectedDiagnostic(a) == IF a = None THEN NoArtifactInfo ELSE ArtifactInfo(a)

\* C3: the Empty outcome carries the type and finish-reason of the last
\* artifact observed, or the no-artifact marker, in the script's report and
\* in the service's response alike.  (In the service the fixed message of
\* an Empty response is taken as the marker when no artifact was observed.)
C3_EmptyDiagnostic ==
    /\ ScriptEmpty =>
          <<"No image artifact found in the response. Last artifact info: ",
            ExpectedDiagnostic(script.artifact)>> \in Range(script.stdout)
    /\ \A r \in Requests :
          ServiceEmpty(r) =>
             IF h[r].artifact = None
             THEN h[r].ret.error = "No image generated."
             ELSE ArtifactInfo(h[r].artifact) \in {h[r].ret.error, h[r].ret.details}

\* C3, the script alone: its report of an Empty outcome names the last
\* artifact observed, or the marker.
C3_ScriptDiagnostic ==
    ScriptEmpty =>
       <<"No image artifact found in the response. Last artifact info: ",
         ExpectedDiagnostic(script.artifact)>> \in Range(script.stdout)

\* C4: with the client initialised, a request whose aspect_ratio_key is no
\* key of the table never reaches the provider call, writes nothing, and is
\* answered with the invalid-key error listing exactly the table's keys.
C4_InvalidAspectRatio ==
    \A r \in Requests :
       (/\ stability_api # None
        /\ h[r].pc \notin {"idle", "pending", "check_api", "done"}
        /\ h[r].aspect_ratio_key \notin DOMAIN ASPECT_RATIOS) =>
          /\ h[r].pc \in {"check_ratio", "returned"}
          /\ sent[r] = <<>>
          /\ WritesBy(r) = {}
          /\ h[r].output_filename = <<>>
          /\ h[r].pc = "returned" =>
                /\ h[r].ret.error = "Invalid aspect_ratio_key"
                /\ DOMAIN h[r].ret = {"error", "available_keys"}
                /\ Range(h[r].ret.available_keys) = DOMAIN ASPECT_RATIOS
                /\ Len(h[r].ret.available_keys) = Cardinality(DOMAIN ASPECT_RATIOS)

C4_Witness ==
    \E r \in Requests :
       /\ stability_api # None
       /\ h[r].pc = "returned"
       /\ h[r].aspect_ratio_key = "4:3_classic"
       /\ "available_keys" \in DOMAIN h[r].ret

\* C5: when the service was started with STABILITY_KEY unset or empty, the
\* client handle is None in every state, no request ever calls the provider
\* or writes a file, and every request that returns returns the
\* not-initialised error, whatever its aspect_ratio_key.
C5_NotInitialized ==
    (program = "main.py" /\ STABILITY_KEY \in {NoneValue, ""}) =>
       /\ stability_api = None
       /\ writes = <<>>
       /\ \A r \in Requests :
             /\ sent[r] = <<>>
             /\ h[r].pc \in {"idle", "pending", "check_api", "returned", "done"}
             /\ h[r].pc = "returned" =>
                   /\ h[r].ret.error = "Stability API not initialized. Check server logs."
                   /\ "detail" \in DOMAIN h[r].ret

\* Started with an empty key, the service is serving; one request has been
\* answered and a later one, with an invalid aspect_ratio_key, is answered
\* with the not-initialised error.
C5_Witness ==
    /\ program = "main.py"
    /\ STABILITY_KEY = ""
    /\ server = "serving"
    /\ \E q, r \in Requests :
          /\ h[q].pc = "done"
          /\ h[r].pc = "returned"
          /\ h[r].aspect_ratio_key = "4:3_classic"
          /\ h[r].ret.error = "Stability API not initialized. Check server logs."


\* the prompt components a payload carries: the items of a list, or the one
\* bare text (which has no weight field)
PromptComponents(arg) ==
    IF arg.kind = "list" THEN arg.items ELSE << [text |-> arg.text] >>

HasWeight(component, w) == "weight" \in DOMAIN component /\ component.weight = w

SizeMatches(payload, table, key) ==
    /\ payload.width = table[key][1]
    /\ payload.height = table[key][2]

\* C6 as stated: every payload has the table's width and height for its key,
\* one component (the prompt, weight +1.0) when negative_prompt is empty,
\* and the two components (prompt at +1.0, negative prompt at -1.0) in that
\* order otherwise.
C6_PayloadAsStated ==
    /\ \A r \in Requests : \A i \in DOMAIN sent[r] :
          LET comps == PromptComponents(sent[r][i].prompt) IN
             /\ SizeMatches(sent[r][i], ASPECT_RATIOS, h[r].aspect_ratio_key)
             /\ IF h[r].negative_prompt = ""
                THEN /\ Len(comps) = 1
                     /\ comps[1].text = h[r].prompt
                     /\ HasWeight(comps[1], 1)
                ELSE comps = << [text |-> h[r].prompt, weight |-> 1],
                                [text |-> h[r].negative_prompt, weight |-> -1] >>
    /\ \A i \in DOMAIN sent[ScriptCaller] :
          /\ SizeMatches(sent[ScriptCaller][i], aspect_ratios, selected_aspect_ratio)
          /\ PromptComponents(sent[ScriptCaller][i].prompt) =
                << [text |-> prompt_text, weight |-> 1],
                   [text |-> negative_prompt_text, weight |-> -1] >>

\* C6, amended: as above, except that with an empty negative_prompt the
\* prompt argument is the bare prompt text, a single component on which the
\* program sets no weight.
C6_Payload ==
    /\ \A r \in Requests : \A i \in DOMAIN sent[r] :
          LET arg == sent[r][i].prompt
              comps == PromptComponents(arg) IN
             /\ SizeMatches(sent[r][i], ASPECT_RATIOS, h[r].aspect_ratio_key)
             /\ IF h[r].negative_prompt = ""
                THEN /\ arg.kind = "str"
                     /\ Len(comps) = 1
                     /\ comps[1].text = h[r].prompt
                     /\ "weight" \notin DOMAIN comps[1]
                ELSE /\ arg.kind = "list"
                     /\ comps = << [text |-> h[r].prompt, weight |-> 1],
                                   [text |-> h[r].negative_prompt, weight |-> -1] >>
    /\ \A i \in DOMAIN sent[ScriptCaller] :
          /\ SizeMatches(sent[ScriptCaller][i], aspect_ratios, selected_aspect_ratio)
          /\ sent[ScriptCaller][i].prompt.kind = "list"
          /\ PromptComponents(sent[ScriptCaller][i].prompt) =
                << [text |-> prompt_text, weight |-> 1],
                   [text |-> negative_prompt_text, weight |-> -1] >>

\* A payload has gone out for a request with an empty negative_prompt and a
\* key whose width and height differ.
C6_Witness ==
    \E r \in Requests :
       /\ Len(sent[r]) = 1
       /\ h[r].negative_prompt = ""
       /\ h[r].aspect_ratio_key = "9:16_tall"
       /\ sent[r][1].width = 768
       /\ sent[r][1].height = 1344

\* C7: two writes by different requests never go to the same file; while a
\* request holds a filename, every write to that file is its own and each
\* of its writes goes to that file.
C7_FileIsolation ==
    /\ \A i, j \in DOMAIN writes :
          (writes[i].by # writes[j].by) => (writes[i].file # writes[j].file)
    /\ \A r \in Requests :
          (Live(r) /\ h[r].output_filename # <<>>) =>
             /\ \A i \in DOMAIN writes :
                   writes[i].file = h[r].output_filename => writes[i].by = r
             /\ \A i \in WritesBy(r) : writes[i].file = h[r].output_filename
             /\ \A q \in Requests \ {r} :
                   h[q].output_filename # h[r].output_filename

\* Two requests have each saved an image.
C7_Witness ==
    \E i, j \in DOMAIN writes :
       /\ writes[i].by # writes[j].by
       /\ writes[i].data = "png"
       /\ writes[j].data = "png"
       /\ writes[i].by \in Requests
       /\ writes[j].by \in Requests

InFlight(r) == h[r].pc \in {"generate", "for_resp", "for_artifact"}

\* C8: while one request is in its provider round-trip, a request that has
\* arrived can be taken up by the service.
C8_AcceptsWhileInFlight ==
    \A a, b \in Requests :
       (InFlight(a) /\ h[b].pc = "pending") => ENABLED Begin(b)

\* C9: the provider is called at most once per request; an exception raised
\* by the call, by the stream or by decoding and saving never escapes the
\* handler, and the request is answered with the error response that
\* carries the exception's text.
C9_ErrorBoundary ==
    \A r \in Requests :
       /\ Len(sent[r]) <= 1
       /\ h[r].pc # "crashed"
       /\ h[r].e # NoException =>
             /\ h[r].pc \in {"except", "returned"}
             /\ Len(sent[r]) = 1
             /\ h[r].pc = "returned" =>
                   h[r].ret = [error |-> "Failed to generate image.",
                               details |-> h[r].e]

\* The stream of a request raised after one chunk and the request has been
\* answered.
C9_Witness ==
    \E r \in Requests :
       /\ h[r].pc = "returned"
       /\ h[r].e = "stream: rpc error"
       /\ h[r].answers = 1
       /\ "error" \in DOMAIN h[r].ret

SavedImage(r) == \E i \in WritesBy(r) : writes[i].data # "truncated"

\* C10: a request is answered with the success response exactly when it has
\* saved an image file; the response then names the file written and
\* repeats the request's prompt, negative_prompt and aspect_ratio_key; every
\* other answer, unless the save itself raised, comes with no file written
\* by the request.
C10_ResponseFileAgreement ==
    \A r \in Requests :
       h[r].pc = "returned" =>
          /\ ("message" \in DOMAIN h[r].ret) <=> SavedImage(r)
          /\ "message" \in DOMAIN h[r].ret =>
                /\ \E i \in WritesBy(r) : writes[i].file = h[r].ret.filename
                /\ h[r].ret.prompt = h[r].prompt
                /\ h[r].ret.negative_prompt = h[r].negative_prompt
                /\ h[r].ret.aspect_ratio = h[r].aspect_ratio_key
                /\ DOMAIN h[r].ret =
                      {"message", "filename", "prompt", "negative_prompt", "aspect_ratio"}
          /\ ("message" \notin DOMAIN h[r].ret /\ h[r].e # "save: no space left on device")
                => WritesBy(r) = {}

C10_Witness ==
    \E r \in Requests :
       /\ h[r].pc = "returned"
       /\ SavedImage(r)
       /\ h[r].ret.prompt = "dragon"
       /\ h[r].ret.negative_prompt = "blurry"
       /\ h[r].ret.aspect_ratio = "2:3_portrait"

====
